---- MODULE Spec2Model ----
(***************************************************************************)
(* movement_analyzer/app.py: a Flask application that provisions four      *)
(* directories at import time and serves templates/index.html on GET /.    *)
(*                                                                         *)
(* The process is run as a script (python app.py): the module body runs    *)
(* top to bottom, then app.run(debug=True).  The filesystem is shared with *)
(* an environment that may write or remove the files the routes read.      *)
(***************************************************************************)
EXTENDS Integers, Sequences, FiniteSets, TLC

\* ---------------------------------------------------------------- bounds
MaxLen == 1          \* longest file content, in bytes
MaxInflight == 2     \* most requests accepted and not yet answered

\* ------------------------------------------------------------- constants
UPLOAD_FOLDER == "uploads"
PROCESSED_FOLDER == "processed_videos"
TEMPLATES_FOLDER == "templates"
STATIC_FOLDER == "static"

\* A variant order of the calls.
FoldersStaticFirst ==
    <<STATIC_FOLDER, UPLOAD_FOLDER, PROCESSED_FOLDER, TEMPLATES_FOLDER>>

\* The os.makedirs calls, in program order.
Folders == <<UPLOAD_FOLDER, PROCESSED_FOLDER, TEMPLATES_FOLDER, STATIC_FOLDER>>

FolderSet == {Folders[i] : i \in 1..Len(Folders)}

\* What a name in the working directory can be.
Kinds == {"absent", "dir", "file"}

\* Where a relative path can be anchored: the process working directory, or
\* the directory that holds app.py when that is another directory.
Locs == {"cwd", "pkg"}

Bytes == {0}
Contents == UNION {[1..n -> Bytes] : n \in 0..MaxLen}

Absent == [exists |-> FALSE, data |-> <<>>]
File(data) == [exists |-> TRUE, data |-> data]

INDEX_HTML == <<TEMPLATES_FOLDER, "index.html">>
STYLE_CSS == <<STATIC_FOLDER, "style.css">>
FileKeys == {INDEX_HTML, STYLE_CSS}

\* Request paths, as their segments: /, /missing, /static/style.css.
Paths == {<<>>, <<"missing">>, <<"static", "style.css">>}

VARIABLES
    root_path,   \* app.root_path: where Flask anchors relative folders
    dirs,        \* kind of each of the four names in the working directory
    files,       \* files[l][k]: the file k = <<folder, name>> anchored at l
    phase,       \* "provisioning", "serving" or "failed"
    run,         \* 1: the process started by the user; 2: the reloader's child
    pc,          \* index in Folders of the next os.makedirs call
    inflight,    \* inflight[p]: requests for p accepted and not yet answered
    last,        \* the latest response, with what the filesystem held then
    dirs0,       \* history: dirs in the initial state
    calls        \* history: os.makedirs calls made so far

vars == <<root_path, dirs, files, phase, run, pc, inflight, last, dirs0, calls>>

NoResponse ==
    [valid |-> FALSE, path |-> <<>>, status |-> 0, body |-> <<>>,
     served |-> Absent, first |-> FALSE, after404 |-> FALSE]

Init ==
    /\ root_path \in Locs
    /\ dirs \in [FolderSet -> Kinds]
    /\ files = [l \in Locs |-> [k \in FileKeys |-> Absent]]
    /\ phase = "provisioning"
    /\ run = 1
    /\ pc = 1
    /\ inflight = [p \in Paths |-> 0]
    /\ last = NoResponse
    /\ dirs0 = dirs
    /\ calls = 0

\* ---------------------------------------------------------- provisioning

\* os.makedirs(name, exist_ok=True) on a one-segment name of kind k:
\* mkdir creates it when absent; FileExistsError is swallowed only when the
\* name is a directory; a regular file there makes the call raise.
\* Variants of makedirs: one that tests for the name without creating it,
\* one that swallows every error, one without exist_ok.
makedirs_check_only(k) ==
    IF k = "file" THEN [raised |-> TRUE, kind |-> k]
    ELSE [raised |-> FALSE, kind |-> k]

makedirs_swallow(k) ==
    IF k = "absent" THEN [raised |-> FALSE, kind |-> "dir"]
    ELSE [raised |-> FALSE, kind |-> k]

makedirs_no_exist_ok(k) ==
    IF k = "absent" THEN [raised |-> FALSE, kind |-> "dir"]
    ELSE [raised |-> TRUE, kind |-> k]

makedirs(k) ==
    IF k = "absent" THEN [raised |-> FALSE, kind |-> "dir"]
    ELSE IF k = "dir" THEN [raised |-> FALSE, kind |-> "dir"]
    ELSE [raised |-> TRUE, kind |-> k]

\* One of the four module-level os.makedirs statements.  An exception at
\* module level is uncaught: the interpreter exits before app.run.
Makedirs ==
    /\ phase = "provisioning"
    /\ pc <= Len(Folders)
    /\ LET name == Folders[pc]
           r == makedirs(dirs[name])
       IN  /\ dirs' = [dirs EXCEPT ![name] = r.kind]
           /\ IF r.raised
                 THEN phase' = "failed" /\ pc' = pc
                 ELSE phase' = phase /\ pc' = pc + 1
    /\ calls' = calls + 1
    /\ UNCHANGED <<root_path, files, run, inflight, last, dirs0>>

\* app.run(debug=True): debug turns the reloader on, so the first process
\* binds the socket and re-executes the script in a child (which runs the
\* module body again); the child is the process that serves.
AppRun ==
    /\ phase = "provisioning"
    /\ pc = Len(Folders) + 1
    /\ IF run = 1
          THEN run' = 2 /\ pc' = 1 /\ phase' = phase
          ELSE run' = run /\ pc' = pc /\ phase' = "serving"
    /\ UNCHANGED <<root_path, dirs, files, inflight, last, dirs0, calls>>

\* -------------------------------------------------------------- requests

Response(status, body) == [status |-> status, body |-> body, files |-> files]

\* The file <<directory, name>> anchored at l (absent when never written).
Lookup(l, k) == IF k \in FileKeys THEN files[l][k] ELSE Absent

\* flask.send_from_directory(directory, name): the relative directory is
\* joined to app.root_path; NotFound (404) unless the path is a regular file,
\* else a 200 response whose body is the file as it is now.  The view only
\* reads: the filesystem after it is the filesystem before it.
\* A variant that leaves an empty file behind when the file is missing.
send_from_directory_touch(directory, name) ==
    LET k == <<directory, name>>
        f == Lookup(root_path, k)
    IN  IF f.exists THEN Response(200, f.data)
        ELSE [status |-> 404, body |-> <<>>,
              files |-> [files EXCEPT ![root_path][k] = File(<<>>)]]

send_from_directory(directory, name) ==
    LET f == Lookup(root_path, <<directory, name>>)
    IN  IF f.exists THEN Response(200, f.data) ELSE Response(404, <<>>)

\* Variants of index: one that answers 200 without the contents, one that
\* opens the file unchecked (an unhandled error is a 500), one that keeps
\* answering 404 once it has answered 404.
index_no_body ==
    LET f == Lookup(root_path, INDEX_HTML)
    IN  IF f.exists THEN Response(200, <<>>) ELSE Response(404, <<>>)

index_open_unchecked ==
    LET f == Lookup(root_path, INDEX_HTML)
    IN  IF f.exists THEN Response(200, f.data) ELSE Response(500, <<>>)

index_sticky_404 ==
    LET f == Lookup(root_path, INDEX_HTML)
        failed_before == last.valid /\ last.path = <<>> /\ last.status = 404
    IN  IF f.exists /\ ~failed_before THEN Response(200, f.data)
        ELSE Response(404, <<>>)

\* @app.route('/') def index()
index == send_from_directory(TEMPLATES_FOLDER, "index.html")

\* Flask(__name__) keeps the default static_folder 'static' and so registers
\* the rule /static/<path:filename>, served from root_path/static.
send_static_file(filename) == send_from_directory(STATIC_FOLDER, filename)

\* A variant URL map whose index rule matches every unrouted path.
dispatch_request_catch_all(path) ==
    IF Len(path) = 2 /\ path[1] = "static" THEN send_static_file(path[2])
    ELSE index

\* The URL map of app: '/' -> index, '/static/<path:filename>' -> static;
\* no rule matches anything else, which is NotFound.
dispatch_request(path) ==
    IF path = <<>> THEN index
    ELSE IF Len(path) = 2 /\ path[1] = "static" THEN send_static_file(path[2])
    ELSE Response(404, <<>>)

\* The file at the path the matched rule resolves, for the response record.
Resolved(path) ==
    IF path = <<>> THEN Lookup(root_path, INDEX_HTML)
    ELSE IF Len(path) = 2 /\ path[1] = "static"
         THEN Lookup(root_path, <<STATIC_FOLDER, path[2]>>)
    ELSE Absent

Pending == inflight[<<>>] + inflight[<<"missing">>] + inflight[<<"static", "style.css">>]

\* A client connects and sends GET path (no conditional or range headers).
\* The first process binds the listening socket in app.run and the child
\* inherits it, so connections queue from then on, answered or not.
SendRequest(path) ==
    /\ run = 2
    /\ phase # "failed"
    /\ Pending < MaxInflight
    /\ inflight' = [inflight EXCEPT ![path] = @ + 1]
    /\ UNCHANGED <<root_path, dirs, files, phase, run, pc, last, dirs0, calls>>

\* The server takes one accepted request, runs the matching view and
\* answers.  Requests are taken in any order and interleave with the
\* environment's writes; a view's read of the file is one step.
HandleRequest(path) ==
    /\ phase = "serving"
    /\ inflight[path] > 0
    /\ LET r == dispatch_request(path)
       IN  /\ files' = r.files
           /\ last' = [valid |-> TRUE, path |-> path,
                       status |-> r.status, body |-> r.body,
                       served |-> Resolved(path),
                       first |-> ~last.valid,
                       after404 |-> \/ last.after404
                                    \/ (last.valid /\ last.path = <<>>
                                        /\ last.status = 404)]
    /\ inflight' = [inflight EXCEPT ![path] = @ - 1]
    /\ UNCHANGED <<root_path, dirs, phase, run, pc, dirs0, calls>>

\* ----------------------------------------------------------- environment

\* The files the routes can name: index.html in the provisioned templates/
\* and in root_path/templates, style.css in root_path/static.  A file in the
\* working directory needs its folder to be a directory.
Writable(l, k) ==
    /\ l \in {"cwd", root_path}
    /\ k = INDEX_HTML \/ l = root_path
    /\ l = "cwd" => dirs[k[1]] = "dir"

EnvWriteFile(l, k, d) ==
    /\ Writable(l, k)
    /\ files[l][k] # File(d)
    /\ files' = [files EXCEPT ![l][k] = File(d)]
    /\ UNCHANGED <<root_path, dirs, phase, run, pc, inflight, last, dirs0, calls>>

EnvRemoveFile(l, k) ==
    /\ files[l][k].exists
    /\ files' = [files EXCEPT ![l][k] = Absent]
    /\ UNCHANGED <<root_path, dirs, phase, run, pc, inflight, last, dirs0, calls>>

Next ==
    \/ Makedirs
    \/ AppRun
    \/ \E p \in Paths : SendRequest(p)
    \/ \E p \in Paths : HandleRequest(p)
    \/ \E l \in Locs, k \in FileKeys, d \in Contents : EnvWriteFile(l, k, d)
    \/ \E l \in Locs, k \in FileKeys : EnvRemoveFile(l, k)

Spec == Init /\ [][Next]_vars

\* The scenario of a fresh working directory: none of the four names exists
\* at startup, and the environment changes files only once the server is
\* serving and while no request is waiting.
InitFresh == Init /\ \A d \in FolderSet : dirs[d] = "absent"

Quiet == phase = "serving" /\ Pending = 0

NextFresh ==
    \/ Makedirs
    \/ AppRun
    \/ \E p \in Paths : SendRequest(p)
    \/ \E p \in Paths : HandleRequest(p)
    \/ \E l \in Locs, k \in FileKeys, d \in Contents :
          Quiet /\ EnvWriteFile(l, k, d)
    \/ \E l \in Locs, k \in FileKeys : Quiet /\ EnvRemoveFile(l, k)

SpecFresh == InitFresh /\ [][NextFresh]_vars

\* ----------------------------------------------------------------- claims

AllDirs == \A d \in FolderSet : dirs[d] = "dir"
Blocked == \E d \in FolderSet : dirs0[d] = "file"
StartedEmpty == \A d \in FolderSet : dirs0[d] = "absent"
IsStatic(path) == Len(path) = 2 /\ path[1] = "static"
AnsweredIndex == last.valid /\ last.path = <<>>

\* The order the specification gives for provisioning.
StatedOrder == <<"uploads", "processed_videos", "templates", "static">>

\* C1: whenever the server is serving or has answered a request, all four
\* directories exist; and from an initial filesystem where each of the four
\* names is absent or a directory, provisioning never fails.
C1_DirsExistWhenServing ==
    /\ (phase = "serving" \/ last.valid) => AllDirs
    /\ ~Blocked => phase # "failed"

C1_Witness ==
    /\ last.valid
    /\ dirs0[UPLOAD_FOLDER] = "absent" /\ dirs0[PROCESSED_FOLDER] = "dir"
    /\ dirs0[TEMPLATES_FOLDER] = "absent" /\ dirs0[STATIC_FOLDER] = "dir"

C4_StartupFailsFast ==
    Blocked =>
        /\ phase # "serving"
        /\ ~last.valid
        /\ run = 1
        /\ pc <= Len(Folders)
        /\ dirs0[Folders[pc]] # "file" => phase = "provisioning"
        /\ phase = "failed" => calls = pc

C4_Witness ==
    /\ phase = "failed"
    /\ dirs0[TEMPLATES_FOLDER] = "file"
    /\ dirs0[UPLOAD_FOLDER] = "absent" /\ dirs0[PROCESSED_FOLDER] = "dir"
    /\ calls = 3

\* C5: the second execution of the provisioning statements, on the
\* filesystem the first left, raises nothing and changes no directory and
\* no file.
C5_ProvisioningIdempotent ==
    [][(Makedirs /\ run = 2) =>
          (phase' = "provisioning" /\ UNCHANGED <<dirs, files>>)]_vars

C5_Witness ==
    /\ run = 2
    /\ pc = Len(Folders) + 1
    /\ StartedEmpty
    /\ files["cwd"][INDEX_HTML].exists

C7_IndexReadsProvisionedTemplates ==
    [][(/\ StartedEmpty
        /\ ~last.valid
        /\ HandleRequest(<<>>)
        /\ files["cwd"][INDEX_HTML].exists
        /\ files["cwd"][INDEX_HTML].data # <<>>) =>
          (/\ last'.status = 200
           /\ last'.body = files["cwd"][INDEX_HTML].data)]_vars

C9_RequestsLeaveFilesystem ==
    [][(\E p \in Paths : HandleRequest(p)) => UNCHANGED <<dirs, files>>]_vars

C9_Witness ==
    /\ last.valid
    /\ last.status = 404
    /\ last.path = <<"static", "style.css">>
    /\ Pending > 0

\* C10: in the first execution the directories are made in the stated
\* order: those before the current one are directories, the current one
\* and those after it are as they were initially; this still holds once a
\* call has failed.
C10_SequentialNoRollback ==
    (run = 1 /\ pc <= Len(StatedOrder)) =>
        \A j \in 1..Len(StatedOrder) :
            /\ j < pc => dirs[StatedOrder[j]] = "dir"
            /\ j >= pc => dirs[StatedOrder[j]] = dirs0[StatedOrder[j]]

C10_Witness ==
    /\ phase = "failed"
    /\ pc = 3
    /\ dirs0[UPLOAD_FOLDER] = "absent" /\ dirs[UPLOAD_FOLDER] = "dir"
    /\ dirs0[STATIC_FOLDER] = "absent" /\ dirs[STATIC_FOLDER] = "absent"

====
